---- MODULE Spec2Model ----
(***************************************************************************)
(* Model of the Steam game recommender: text normalisation (preprocess.py),*)
(* the TF-IDF vector space model (vectorizer.py), cosine ranking           *)
(* (similarity.py), the GameRecommender facade (recommend.py) and the      *)
(* offline build / load path that produces the recommender                 *)
(* (train_model.py, app.py).                                               *)
(*                                                                         *)
(* A Python str is a sequence of one-character strings.  A Python value is *)
(* a record [type, chars]; only str values carry characters.               *)
(***************************************************************************)
EXTENDS Integers, Sequences, FiniteSets, TLC

VARIABLES
    raw_reviews,    \* the raw reviews file read by process_data(): rows [app_id, app_name, review_text]
    game_data,      \* table returned by process_data(): rows [app_id, app_name, combined_reviews, review_count]
    disk,           \* model artifacts on disk: [vectorizer, game_vectors, games_csv], each None or a value, and the unreadable ones
    host,           \* the program run after the build: "flask", "streamlit" or "profile"
    recommender,    \* the host's recommender (app.py global `recommender`): None or the GameRecommender's fields
    argsort_tie,    \* order in which this build's np.argsort leaves equal keys (row -> position)
    pc,             \* position of the process: "process_data", "train_model", "load", "idle", "replied", "exit"
    call,           \* the call just answered: [op, arg, top_n, ret, steps, nonzero]
    first_call,     \* an earlier recommend call kept for comparison with later ones, or NoCall
    runs,           \* number of runs of train_model.py so far
    loads,          \* number of times the host process has read the artifacts and built a GameRecommender
    threads         \* the requests being served at the same time: the local variables of each recommend call

vars == <<raw_reviews, game_data, disk, host, recommender, argsort_tie, pc, call,
          first_call, runs, loads, threads>>

-----------------------------------------------------------------------------
(* Bounds of the model *)

\* longest raw text, counted in pieces of the piece lexicon
MaxPieces == 2
\* largest top_n asked for; top_n ranges over -2..MaxTopN
MaxTopN == 5
\* runs of the offline build
MaxRuns == 2
\* calls of get_top_recommendations in one process
MaxLoads == 2
\* requests served at the same time
MaxThreads == 2
\* tokens in a text handed to transform_text
MaxTokens == 2

-----------------------------------------------------------------------------
(* Python values and strings *)

PyStr(s) == [type |-> "str", chars |-> s]
PyNone == [type |-> "NoneType", chars |-> <<>>]
PyNaN == [type |-> "float", chars |-> <<>>]
PyInt == [type |-> "int", chars |-> <<>>]
PyList == [type |-> "list", chars |-> <<>>]

Return(v) == [exc |-> "none", val |-> v]
Raise(e) == [exc |-> e, val |-> <<>>]

ascii_lowercase ==
    << "a","b","c","d","e","f","g","h","i","j","k","l","m",
       "n","o","p","q","r","s","t","u","v","w","x","y","z" >>
ascii_uppercase ==
    << "A","B","C","D","E","F","G","H","I","J","K","L","M",
       "N","O","P","Q","R","S","T","U","V","W","X","Y","Z" >>

\* the regex class [a-z]
LowerLetters == { ascii_lowercase[i] : i \in 1..26 }
\* the regex class \s (the members that occur in the model's texts)
Whitespace == { " ", "\t", "\n" }
Punctuation == { "'", ",", ".", "!", "-" }

\* str.lower() on one character
lower_char(c) ==
    IF \E i \in 1..26 : ascii_uppercase[i] = c
    THEN ascii_lowercase[CHOOSE i \in 1..26 : ascii_uppercase[i] = c]
    ELSE c

\* text.lower()
str_lower(s) == [i \in 1..Len(s) |-> lower_char(s[i])]

IsLetterOrSpace(c) == c \in LowerLetters \cup Whitespace

\* re.sub(r'[^a-z\s]', '', text): every other character is deleted, nothing is put in its place
re_sub_non_letters(s) == SelectSeq(s, IsLetterOrSpace)

RECURSIVE split_from(_, _, _)
split_from(s, i, cur) ==
    IF i > Len(s)
    THEN (IF cur = <<>> THEN <<>> ELSE <<cur>>)
    ELSE IF s[i] \in Whitespace
         THEN (IF cur = <<>> THEN <<>> ELSE <<cur>>) \o split_from(s, i + 1, <<>>)
         ELSE split_from(s, i + 1, Append(cur, s[i]))

\* text.split(): split on runs of whitespace, no empty words
str_split(s) == split_from(s, 1, <<>>)

RECURSIVE str_join(_)
\* " ".join(words)
str_join(words) ==
    IF words = <<>> THEN <<>>
    ELSE IF Len(words) = 1 THEN words[1]
    ELSE words[1] \o <<" ">> \o str_join(Tail(words))

RECURSIVE str_lstrip(_)
str_lstrip(s) ==
    IF s # <<>> /\ s[1] \in Whitespace THEN str_lstrip(Tail(s)) ELSE s

RECURSIVE str_rstrip(_)
str_rstrip(s) ==
    IF s # <<>> /\ s[Len(s)] \in Whitespace THEN str_rstrip(SubSeq(s, 1, Len(s) - 1)) ELSE s

\* text.strip()
str_strip(s) == str_rstrip(str_lstrip(s))

-----------------------------------------------------------------------------
(* Words of the model's texts *)

w_the == <<"t","h","e">>
w_The == <<"T","h","e">>
w_and == <<"a","n","d">>
w_it == <<"i","t">>
w_its == <<"i","t","s">>
w_it_s == <<"i","t","'","s">>
w_don == <<"d","o","n">>
w_don_t == <<"d","o","n","'","t">>
w_t == <<"t">>
w_s == <<"s">>
w_fps == <<"f","p","s">>
w_war == <<"w","a","r">>
w_gun == <<"g","u","n">>
w_guns == <<"g","u","n","s">>
w_Guns == <<"G","u","n","s">>
w_zen == <<"z","e","n">>
w_map == <<"m","a","p">>
w_maps == <<"m","a","p","s">>
w_xyzzy == <<"x","y","z","z","y">>
w_xyzzy123 == <<"x","y","z","z","y","1","2","3">>

\* stop_words = set(stopwords.words('english')): the members of NLTK's
\* English list that the model's texts can spell
stop_words == { w_the, w_and, w_it, w_its, w_it_s, w_don, w_don_t, w_t, w_s }

\* lemmatizer.lemmatize(word): WordNet's noun lemma of a word it knows, the
\* word itself otherwise
lemmatize(word) ==
    IF word = w_guns THEN w_gun
    ELSE IF word = w_maps THEN w_map
    ELSE word

RECURSIVE cleaned_words_unique(_)
\* as cleaned_words, keeping only the last occurrence of a repeated word
cleaned_words_unique(words) ==
    IF words = <<>> THEN <<>>
    ELSE IF Head(words) \notin stop_words
            /\ \A k \in DOMAIN Tail(words) : Tail(words)[k] # Head(words)
         THEN <<lemmatize(Head(words))>> \o cleaned_words_unique(Tail(words))
         ELSE cleaned_words_unique(Tail(words))

RECURSIVE cleaned_words(_)
\* the loop of clean_text over the split words
cleaned_words(words) ==
    IF words = <<>> THEN <<>>
    ELSE IF Head(words) \notin stop_words
         THEN <<lemmatize(Head(words))>> \o cleaned_words(Tail(words))
         ELSE cleaned_words(Tail(words))

\* as clean_text, without the guard for values that are not strings
clean_text_unguarded(text) ==
    IF text.type # "str" THEN Raise("AttributeError")
    ELSE Return(str_join(cleaned_words(str_split(re_sub_non_letters(str_lower(text.chars))))))

\* clean_text(text)
clean_text(text) ==
    IF text.type # "str" \/ text.chars = <<>>
    THEN Return(<<>>)
    ELSE Return(str_join(cleaned_words(str_split(re_sub_non_letters(str_lower(text.chars))))))

-----------------------------------------------------------------------------
(* vectorizer.py: the TF-IDF vector space model *)

\* TfidfVectorizer(max_features=5000, min_df=2, max_df=0.8, ngram_range=(1, 2))
max_features == 5000
min_df == 2
\* max_df = 0.8, as the fraction 8/10
max_df == <<8, 10>>
ngram_range == <<1, 2>>

create_tfidf_vectorizer ==
    [max_features |-> max_features, min_df |-> min_df, max_df |-> max_df,
     ngram_range |-> ngram_range]

Range(f) == { f[i] : i \in DOMAIN f }

IsToken(word) == Len(word) >= 2

\* the default token_pattern (?u)\b\w\w+\b on a cleaned text: runs of two or
\* more word characters
tokenize(doc) == SelectSeq(str_split(doc), IsToken)

\* the n-grams of one size, in order of position
ngrams_of(tokens, n) ==
    [i \in 1..(Len(tokens) - n + 1) |-> str_join(SubSeq(tokens, i, i + n - 1))]

RECURSIVE word_ngrams(_, _, _)
\* _word_ngrams: the n-grams for n in min_n..max_n
word_ngrams(tokens, n, max_n) ==
    IF n > max_n THEN <<>>
    ELSE ngrams_of(tokens, n) \o word_ngrams(tokens, n + 1, max_n)

\* the analyzer: the terms of a document, with repetition
analyze(cfg, doc) == word_ngrams(tokenize(doc), cfg.ngram_range[1], cfg.ngram_range[2])

\* term frequency of a term in a list of terms
term_count(t, terms) == Cardinality({ i \in DOMAIN terms : terms[i] = t })

RECURSIVE SumOver(_, _)
\* sum of f[x] for x in DOMAIN f
SumOver(f, S) ==
    IF S = {} THEN 0
    ELSE LET x == CHOOSE y \in S : TRUE IN f[x] + SumOver(f, S \ {x})

\* smooth idf, ln((1 + n) / (1 + df)) + 1, in tenths (rounded), for df <= n <= 5
idf_table ==
    << <<10>>,
       <<14, 10>>,
       <<17, 13, 10>>,
       <<19, 15, 12, 10>>,
       <<21, 17, 14, 12, 10>> >>

idf_weight(n_docs, df) == idf_table[n_docs][df]

\* a row that counts the terms outside the vocabulary in one of its columns
tfidf_row_unknown_in_first_column(vectorizer, terms) ==
    LET first == CHOOSE t \in vectorizer.vocabulary_ : TRUE
        unknown == Cardinality({ i \in DOMAIN terms : terms[i] \notin vectorizer.vocabulary_ })
    IN  [t \in vectorizer.vocabulary_ |->
            (term_count(t, terms) + (IF t = first THEN unknown ELSE 0)) * vectorizer.idf_[t]]

\* the row of the tf-idf matrix for a list of terms: tf * idf on the vocabulary.
\* The L2 normalisation of the row is left to the cosine, which divides by the
\* norms itself.
tfidf_row(vectorizer, terms) ==
    [t \in vectorizer.vocabulary_ |-> term_count(t, terms) * vectorizer.idf_[t]]

\* _limit_features: the terms inside the document-frequency band, capped at
\* max_features by total term frequency
limit_features(cfg, docs_terms) ==
    LET n_doc == Len(docs_terms)
        all_terms == UNION { Range(docs_terms[d]) : d \in 1..n_doc }
        dfs == [t \in all_terms |-> Cardinality({ d \in 1..n_doc : t \in Range(docs_terms[d]) })]
        tfs == [t \in all_terms |-> SumOver([d \in 1..n_doc |-> term_count(t, docs_terms[d])], 1..n_doc)]
        kept == { t \in all_terms :
                    /\ dfs[t] >= cfg.min_df
                    /\ dfs[t] * cfg.max_df[2] <= cfg.max_df[1] * n_doc }
    IN  IF Cardinality(kept) <= cfg.max_features THEN kept
        ELSE CHOOSE top \in SUBSET kept :
                /\ Cardinality(top) = cfg.max_features
                /\ \A t \in top, u \in kept \ top : tfs[t] >= tfs[u]

\* vectorizer.fit_transform(documents)
fit_and_transform(cfg, documents) ==
    LET n_doc == Len(documents)
        docs_terms == [d \in 1..n_doc |-> analyze(cfg, documents[d])]
        all_terms == UNION { Range(docs_terms[d]) : d \in 1..n_doc }
        vocabulary == limit_features(cfg, docs_terms)
        dfs == [t \in vocabulary |-> Cardinality({ d \in 1..n_doc : t \in Range(docs_terms[d]) })]
        fitted == [ngram_range |-> cfg.ngram_range,
                   vocabulary_ |-> vocabulary,
                   idf_ |-> [t \in vocabulary |-> idf_weight(n_doc, dfs[t])]]
    IN  IF all_terms = {} THEN Raise("ValueError")                 \* empty vocabulary
        ELSE IF cfg.max_df[1] * n_doc < cfg.min_df * cfg.max_df[2]
             THEN Raise("ValueError")                               \* max_df < min_df documents
        ELSE IF vocabulary = {} THEN Raise("ValueError")            \* after pruning, no terms remain
        ELSE Return([vectorizer |-> fitted,
                     vectors |-> [d \in 1..n_doc |-> tfidf_row(fitted, docs_terms[d])]])

\* vectorizer.transform([text]): terms outside vocabulary_ get no column
transform_text(vectorizer, text) ==
    tfidf_row(vectorizer, analyze(vectorizer, text))

-----------------------------------------------------------------------------
(* similarity.py: cosine scores and top-N selection *)

(* A score is the non-negative real coef * sqrt(num / den), kept exactly:   *)
(* num / den is the squared cosine in lowest terms.  Equal reals have equal *)
(* representations.                                                         *)

RECURSIVE gcd(_, _)
gcd(a, b) == IF b = 0 THEN a ELSE gcd(b, a % b)

Score(coef, num, den) ==
    IF num = 0 THEN [coef |-> coef, num |-> 0, den |-> 1]
    ELSE [coef |-> coef, num |-> num \div gcd(num, den), den |-> den \div gcd(num, den)]

ZeroScore == Score(1, 0, 1)

RECURSIVE frac_less(_, _, _, _)
\* a/b < c/d for a, c >= 0 and b, d > 0, by continued fractions (no products)
frac_less(a, b, c, d) ==
    IF (a \div b) # (c \div d) THEN (a \div b) < (c \div d)
    ELSE IF c % d = 0 THEN FALSE
    ELSE IF a % b = 0 THEN TRUE
    ELSE frac_less(d, c % d, b, a % b)

\* x < y for two scores with the same coef
score_less(x, y) == frac_less(x.num, x.den, y.num, y.den)
score_leq(x, y) == ~ score_less(y, x)

\* score * k for a positive integer k
score_times(x, k) == [x EXCEPT !.coef = @ * k]

dot(u, v) == SumOver([t \in DOMAIN u |-> u[t] * v[t]], DOMAIN u)

\* the product of the two rows without the division by their norms
cosine_unnormalised(u, v) ==
    IF dot(u, v) = 0 THEN ZeroScore
    ELSE Score(1, dot(u, v) * dot(u, v), 1)

\* sklearn cosine_similarity of two rows: both are L2-normalised (a zero row
\* stays zero) and multiplied
cosine(u, v) ==
    IF dot(u, u) = 0 \/ dot(v, v) = 0 THEN ZeroScore
    ELSE Score(1, dot(u, v) * dot(u, v), dot(u, u) * dot(v, v))

\* cosine_similarity(user_vector, all_game_vectors)[0]
calculate_similarity_matrix(user_vector, all_game_vectors) ==
    [i \in 1..Len(all_game_vectors) |-> cosine(user_vector, all_game_vectors[i])]

\* the row of the largest score, at every position
np_argmax_repeated(similarities) ==
    LET n == Len(similarities)
        best == CHOOSE i \in 1..n : \A j \in 1..n : ~ score_less(similarities[i], similarities[j])
    IN  [k \in 1..n |-> best]

\* np.argsort(similarities): the rows in ascending order of score.  The
\* default kind is not a stable sort: rows with equal scores come out in an
\* order the build fixes (argsort_tie), the same on every call.
np_argsort(similarities) ==
    LET n == Len(similarities)
        before(i, j) == \/ score_less(similarities[i], similarities[j])
                        \/ /\ similarities[i] = similarities[j]
                           /\ argsort_tie[i] < argsort_tie[j]
    IN  [k \in 1..n |-> CHOOSE i \in 1..n : Cardinality({ j \in 1..n : before(j, i) }) = k - 1]

\* seq[::-1]
reversed(seq) == [k \in 1..Len(seq) |-> seq[Len(seq) + 1 - k]]

\* a slice that repeats the last element when stop is past the end
slice_to_padded(seq, stop) ==
    IF stop <= 0 \/ seq = <<>> THEN <<>>
    ELSE [k \in 1..stop |-> seq[IF k < Len(seq) THEN k ELSE Len(seq)]]

\* seq[:stop] for an integer stop, which counts from the end when negative
slice_to(seq, stop) ==
    LET n == Len(seq)
        last == IF stop >= 0 THEN (IF stop < n THEN stop ELSE n)
                ELSE (IF n + stop > 0 THEN n + stop ELSE 0)
    IN  SubSeq(seq, 1, last)

\* as find_top_matches, the ascending order not reversed
find_top_matches_ascending(similarities, top_n) ==
    slice_to(np_argsort(similarities), top_n)

\* find_top_matches(similarities, top_n): rows are numbered from 1
find_top_matches(similarities, top_n) ==
    slice_to(reversed(np_argsort(similarities)), top_n)

\* the scores of the first rows of the matrix, not of the rows selected
get_similarity_scores_by_position(similarities, indices) ==
    [k \in 1..Len(indices) |-> similarities[k]]

\* get_similarity_scores(similarities, indices)
get_similarity_scores(similarities, indices) ==
    [k \in 1..Len(indices) |-> similarities[indices[k]]]

-----------------------------------------------------------------------------
(* recommend.py: the GameRecommender facade *)

\* GameRecommender.__init__
GameRecommender(vectorizer, game_vectors, game_names, game_ids) ==
    [vectorizer |-> vectorizer, game_vectors |-> game_vectors,
     game_names |-> game_names, game_ids |-> game_ids]

\* as recommendation_record, with the score in place of the percentage
recommendation_record_unscaled(self, idx, score) ==
    [game_id |-> self.game_ids[idx],
     game_name |-> self.game_names[idx],
     similarity_score |-> score,
     match_percentage |-> score]

\* the dictionary appended for one (idx, score) pair
recommendation_record(self, idx, score) ==
    [game_id |-> self.game_ids[idx],
     game_name |-> self.game_names[idx],
     similarity_score |-> score,
     match_percentage |-> score_times(score, 100)]

\* steps 2-5 of recommend, reached with a cleaned review that is not blank
recommend_scored(self, cleaned_review, top_n) ==
    LET user_vector == transform_text(self.vectorizer, cleaned_review)
        similarities == calculate_similarity_matrix(user_vector, self.game_vectors)
        top_indices == find_top_matches(similarities, top_n)
        top_scores == get_similarity_scores(similarities, top_indices)
        steps == << "clean_text", "transform_text", "calculate_similarity_matrix",
                    "find_top_matches", "get_similarity_scores" >>
    IN  IF \E k \in 1..Len(top_indices) :
              top_indices[k] > Len(self.game_ids) \/ top_indices[k] > Len(self.game_names)
        THEN [ret |-> Raise("IndexError"), steps |-> steps,
              nonzero |-> dot(user_vector, user_vector) > 0]
        ELSE [ret |-> Return([k \in 1..Len(top_indices) |->
                                recommendation_record(self, top_indices[k], top_scores[k])]),
              steps |-> steps, nonzero |-> dot(user_vector, user_vector) > 0]

\* as recommend, without the early return for a blank cleaned review
recommend_no_blank_check(self, user_review, top_n) ==
    recommend_scored(self, clean_text(user_review).val, top_n)

\* GameRecommender.recommend(user_review, top_n): the value returned (or the
\* exception raised), the pipeline steps it called, and whether the query
\* vector had a non-zero component
recommend(self, user_review, top_n) ==
    LET cleaned_review == clean_text(user_review)
    IN  IF cleaned_review.exc # "none"
        THEN [ret |-> cleaned_review, steps |-> <<"clean_text">>, nonzero |-> FALSE]
        ELSE IF str_strip(cleaned_review.val) = <<>>
        THEN [ret |-> Return(<<>>), steps |-> <<"clean_text">>, nonzero |-> FALSE]
        ELSE recommend_scored(self, cleaned_review.val, top_n)

\* GameRecommender.get_all_games()
get_all_games(self) ==
    [k \in 1..(IF Len(self.game_ids) < Len(self.game_names)
               THEN Len(self.game_ids) ELSE Len(self.game_names)) |->
        [game_id |-> self.game_ids[k], game_name |-> self.game_names[k]]]

\* GameRecommender.get_total_games()
get_total_games(self) == Len(self.game_names)

-----------------------------------------------------------------------------
(* Inputs of the model *)

None == <<>>
Some(x) == <<x>>
NoCall == <<>>

w_fast == <<"f","a","s","t">>
w_paced == <<"p","a","c","e","d">>
w_shooter == <<"s","h","o","o","t","e","r">>
w_action == <<"a","c","t","i","o","n">>
w_relaxing == <<"r","e","l","a","x","i","n","g">>
w_puzzle == <<"p","u","z","z","l","e">>
w_calm == <<"c","a","l","m">>
w_open == <<"o","p","e","n">>
w_world == <<"w","o","r","l","d">>
w_exploration == <<"e","x","p","l","o","r","a","t","i","o","n">>
w_adventure == <<"a","d","v","e","n","t","u","r","e">>
w_intense == <<"i","n","t","e","n","s","e">>

Game(id, name, words) ==
    [app_id |-> id, app_name |-> name, combined_reviews |-> str_join(words),
     review_count |-> Len(words)]

\* the three-game scenario of the specification, as a table given to
\* train_model
CorpusScenario ==
    << Game(10, "A", <<w_fast, w_paced, w_shooter, w_action>>),
       Game(20, "B", <<w_relaxing, w_puzzle, w_calm>>),
       Game(30, "C", <<w_open, w_world, w_exploration, w_adventure>>) >>

ScenarioQuery == PyStr(str_join(<<w_intense, w_action, w_shooter>>))

Permutations_of(n) ==
    { f \in [1..n -> 1..n] : \A i, j \in 1..n : i # j => f[i] # f[j] }

\* words of the queries; a query is up to MaxPieces of them joined by spaces
QueryWords == { w_fps, w_war, w_Guns, w_The, w_xyzzy123 }

QueryTexts ==
    { str_join(ws) : ws \in UNION { [1..k -> QueryWords] : k \in 0..MaxPieces } }

NonStrings == { PyNone, PyNaN, PyInt, PyList }

Reviews ==
    NonStrings \cup { PyStr(t) : t \in QueryTexts } \cup { PyStr(<<" ">>), PyStr(<<"!", "1">>) }

TopNs == (-2)..MaxTopN

\* pieces of the raw texts given to clean_text; a raw text is up to MaxPieces
\* of them, one after the other
RawPieces ==
    { w_the, w_The, w_and, w_it_s, w_don_t, w_guns, w_zen, w_xyzzy123,
      <<" ">>, <<"\n">>, <<",">>, <<"!">>,
      w_Guns \o <<",", " ">> \o w_the \o <<" ", " ">>,
      w_zen \o <<"\n">> \o w_guns }

RECURSIVE concat(_)
concat(pieces) == IF pieces = <<>> THEN <<>> ELSE Head(pieces) \o concat(Tail(pieces))

RawTexts ==
    { concat(ps) : ps \in UNION { [1..k -> RawPieces] : k \in 0..MaxPieces } }

RawValues == NonStrings \cup { PyStr(t) : t \in RawTexts }

-----------------------------------------------------------------------------------------------------------------------------------------------------
(* The raw reviews file: one row per review *)

Row(id, name, text) == [app_id |-> id, app_name |-> name, review_text |-> text]

\* an empty app_name cell, read by pandas as NaN
NaN == "NaN"

\* one row per word: the reviews of one game, each a single word
ReviewsOf(id, name, words) == [k \in 1..Len(words) |-> Row(id, name, PyStr(words[k]))]

\* three games, every word in two of them; a stopword-only review and a game
\* with four usable reviews besides
DataRing ==
    ReviewsOf(30, "C", <<w_gun, w_fps, w_Guns, w_fps, w_gun>>)
    \o ReviewsOf(10, "A", <<w_fps, w_war, w_The, w_fps, w_war, w_fps>>)
    \o ReviewsOf(40, "D", <<w_zen, w_map, w_zen, w_map>>)
    \o << Row(40, "D", PyNaN) >>
    \o ReviewsOf(20, "B", <<w_war, w_gun, w_war, w_guns, w_war>>)

\* two games with the same reviews and one with no vocabulary term
DataTwins ==
    ReviewsOf(10, "A", <<w_fps, w_war, w_fps, w_war, w_gun>>)
    \o ReviewsOf(20, "B", <<w_fps, w_war, w_fps, w_war, w_gun>>)
    \o ReviewsOf(30, "C", <<w_zen, w_map, w_zen, w_map, w_zen>>)

\* four games, document frequencies 3 and 2 (two idf weights)
DataIdf ==
    ReviewsOf(10, "A", <<w_fps, w_war, w_fps, w_war, w_fps>>)
    \o ReviewsOf(20, "B", <<w_fps, w_gun, w_fps, w_gun, w_fps>>)
    \o ReviewsOf(30, "C", <<w_fps, w_zen, w_fps, w_zen, w_fps>>)
    \o ReviewsOf(40, "D", <<w_war, w_gun, w_war, w_gun, w_war>>)

\* one game only
DataSolo == ReviewsOf(10, "A", <<w_fps, w_war, w_fps, w_war, w_fps>>)

RawDatasets == { DataRing, DataTwins, DataIdf, DataSolo }

\* one game under two spellings of its name, five reviews under each
DataSplit ==
    ReviewsOf(10, "A", <<w_fps, w_war, w_fps, w_war, w_fps>>)
    \o ReviewsOf(10, "Ab", <<w_fps, w_war, w_fps, w_war, w_fps>>)
    \o ReviewsOf(20, "B", <<w_war, w_gun, w_war, w_gun, w_war>>)

\* every game has "fps" and "war", two of the three have the phrase "fps war"
DataPhrase ==
    ReviewsOf(10, "A", <<w_fps, w_war, w_fps, w_war, w_fps>>)
    \o ReviewsOf(20, "B", <<w_fps, w_war, w_fps, w_war, w_fps>>)
    \o ReviewsOf(30, "C", <<w_war, w_war, w_war, w_fps, w_fps>>)

\* a game whose rows have no app_name
DataNoName ==
    ReviewsOf(10, "A", <<w_fps, w_war, w_fps, w_war, w_fps>>)
    \o ReviewsOf(20, NaN, <<w_fps, w_gun, w_fps, w_gun, w_fps>>)
    \o ReviewsOf(30, "C", <<w_war, w_gun, w_war, w_gun, w_war>>)

\* the reviews files of the repeated builds
BuildDatasets == { DataRing, DataSolo, DataSplit, DataNoName }

Threads == 1..MaxThreads

\* the arguments of get_top_recommendations
ProfileTexts == { PyStr(w_fps), PyStr(str_join(<<w_war, w_Guns>>)), PyStr(w_xyzzy123) }
ProfileTopNs == { 2, 100 }

-----------------------------------------------------------------------------
(* train_model.py: the offline build *)

MIN_REVIEWS_PER_GAME == 5

\* no artifact on disk; corrupt names the files that exist and cannot be read
NoFiles ==
    [vectorizer |-> None, game_vectors |-> None, games_csv |-> None, corrupt |-> {}]

HasCleanedReview(row) == str_strip(row.cleaned_review) # <<>>

\* df['cleaned_review'] = df['review_text'].apply(clean_text), then the rows
\* whose cleaned review is blank are removed
cleaned_reviews(df) ==
    SelectSeq([k \in 1..Len(df) |->
                  [app_id |-> df[k].app_id, app_name |-> df[k].app_name,
                   review_text |-> df[k].review_text,
                   cleaned_review |-> clean_text(df[k].review_text).val]],
              HasCleanedReview)

\* the app_name values of the model's reviews, in the order of Python strings
app_names == <<"A", "Ab", "B", "C", "D">>

name_rank(name) == CHOOSE i \in DOMAIN app_names : app_names[i] = name

\* the order of the group keys (app_id, app_name)
key_less(k1, k2) ==
    k1[1] < k2[1] \/ (k1[1] = k2[1] /\ name_rank(k1[2]) < name_rank(k2[2]))

RECURSIVE sorted_keys(_)
sorted_keys(keys) ==
    IF keys = {} THEN <<>>
    ELSE LET first == CHOOSE k \in keys : \A o \in keys \ {k} : key_less(k, o)
         IN  <<first>> \o sorted_keys(keys \ {first})

\* df.groupby(['app_id', 'app_name']).agg({'cleaned_review': ' '.join,
\* 'review_text': 'count'}).reset_index(): one row per (app_id, app_name)
\* pair, in key order; a row whose key holds NaN belongs to no group
groupby_agg(df) ==
    LET keys == { <<df[k].app_id, df[k].app_name>> :
                     k \in { j \in DOMAIN df : df[j].app_name # NaN } }
        order == sorted_keys(keys)
        group(key) == { k \in DOMAIN df : df[k].app_id = key[1] /\ df[k].app_name = key[2] }
        \* the rows of a group, in the order of the file
        nth(key, n) == CHOOSE k \in group(key) :
                          Cardinality({ j \in group(key) : j < k }) = n - 1
    IN  [g \in 1..Len(order) |->
            [app_id |-> order[g][1],
             app_name |-> order[g][2],
             combined_reviews |->
                 str_join([n \in 1..Cardinality(group(order[g])) |->
                              df[nth(order[g], n)].cleaned_review]),
             review_count |->
                 Cardinality({ k \in group(order[g]) :
                                 df[k].review_text.type \notin {"float", "NoneType"} })]]

MeetsMinimum(game) == game.review_count >= MIN_REVIEWS_PER_GAME

\* the table process_data() builds from the raw reviews
group_reviews(df) == SelectSeq(groupby_agg(cleaned_reviews(df)), MeetsMinimum)

\* game_data[['app_id', 'app_name', 'review_count']].to_csv(...)
to_csv(table) ==
    [app_id |-> [i \in 1..Len(table) |-> table[i].app_id],
     app_name |-> [i \in 1..Len(table) |-> table[i].app_name],
     review_count |-> [i \in 1..Len(table) |-> table[i].review_count]]

\* process_data(): the reviews are cleaned and grouped and the game table is
\* written to PROCESSED_GAMES_FILE
process_data ==
    /\ pc = "process_data"
    /\ LET table == group_reviews(raw_reviews)
       IN  /\ game_data' = table
           /\ disk' = [disk EXCEPT !.games_csv = Some(to_csv(table)),
                                   !.corrupt = @ \ {"games_csv"}]
    /\ pc' = "train_model"
    /\ UNCHANGED <<raw_reviews, host, recommender, argsort_tie, call, first_call,
                   runs, loads, threads>>

\* the exit status of `python train_model.py`: main() prints the exception it
\* catches and returns as it does after a successful run
main_exit_status(raised) == 0

\* train_model(game_data) under main()'s try/except: the vectorizer is fitted
\* and both pickles are written, or the exception is printed and nothing is
\* written
train_model ==
    /\ pc = "train_model"
    /\ LET documents == [i \in 1..Len(game_data) |-> game_data[i].combined_reviews]
           fit == fit_and_transform(create_tfidf_vectorizer, documents)
       IN  /\ disk' = IF fit.exc = "none"
                      THEN [disk EXCEPT !.vectorizer = Some(fit.val.vectorizer),
                                        !.game_vectors = Some(fit.val.vectors),
                                        !.corrupt = @ \ {"vectorizer", "game_vectors"}]
                      ELSE disk
           /\ call' = Some([op |-> "train_model", arg |-> PyNone, top_n |-> 0,
                            ret |-> IF fit.exc = "none" THEN Return(<<>>) ELSE fit,
                            steps |-> <<"fit_and_transform">>, nonzero |-> FALSE,
                            exit_status |-> main_exit_status(fit.exc)])
           \* the order np.argsort gives to equal scores of a matrix of this size
           /\ argsort_tie' \in IF fit.exc = "none"
                                THEN Permutations_of(Len(documents))
                                ELSE {argsort_tie}
    /\ pc' = "load"
    /\ UNCHANGED <<raw_reviews, game_data, host, recommender, first_call,
                   runs, loads, threads>>

\* `python train_model.py` is run again, on the reviews file of that time
NextRun ==
    /\ pc = "load"
    /\ runs < MaxRuns
    /\ runs' = runs + 1
    /\ raw_reviews' \in BuildDatasets
    /\ pc' = "process_data"
    /\ call' = NoCall
    /\ UNCHANGED <<game_data, disk, host, recommender, argsort_tie, first_call,
                   loads, threads>>

-----------------------------------------------------------------------------
(* Loading the artifacts: app.py, streamlit_app.py, profile.py *)

\* as read_artifacts, a game table that is missing or unreadable read as an
\* empty one
read_artifacts_without_table(d) ==
    IF d.vectorizer = None \/ d.game_vectors = None THEN Raise("FileNotFoundError")
    ELSE IF d.games_csv = None \/ d.corrupt # {}
         THEN Return(GameRecommender(d.vectorizer[1], d.game_vectors[1], <<>>, <<>>))
    ELSE Return(GameRecommender(d.vectorizer[1], d.game_vectors[1],
                                d.games_csv[1].app_name, d.games_csv[1].app_id))

\* pickle.load of the two pickles and pd.read_csv of the game table, in the
\* order the three loaders read them, and the GameRecommender built from them
read_artifacts(d) ==
    IF d.vectorizer = None THEN Raise("FileNotFoundError")
    ELSE IF "vectorizer" \in d.corrupt THEN Raise("UnpicklingError")
    ELSE IF d.game_vectors = None THEN Raise("FileNotFoundError")
    ELSE IF "game_vectors" \in d.corrupt THEN Raise("UnpicklingError")
    ELSE IF d.games_csv = None THEN Raise("FileNotFoundError")
    ELSE IF "games_csv" \in d.corrupt THEN Raise("ParserError")
    ELSE Return(GameRecommender(d.vectorizer[1], d.game_vectors[1],
                                d.games_csv[1].app_name, d.games_csv[1].app_id))

\* app.py load_recommender(): the value the global has afterwards, None when
\* it returns False
app_load_recommender(d) ==
    IF d.vectorizer = None \/ d.game_vectors = None \/ d.games_csv = None
    THEN None
    ELSE IF read_artifacts(d).exc # "none" THEN None
    ELSE Some(read_artifacts(d).val)

\* streamlit_app.py load_recommender(): the recommender it returns, or None
st_load_recommender(d) ==
    IF d.vectorizer = None \/ d.game_vectors = None
    THEN None
    ELSE IF read_artifacts(d).exc # "none" THEN None
    ELSE Some(read_artifacts(d).val)

\* app.py: load_recommender() and the branch of __main__ on its result
load_recommender ==
    /\ pc = "load"
    /\ host = "flask"
    /\ LET loaded == app_load_recommender(disk)
       IN  /\ recommender' = IF loaded = None THEN recommender ELSE loaded
           /\ loads' = IF loaded = None THEN loads ELSE loads + 1
           /\ pc' = IF loaded = None THEN "exit" ELSE "idle"
    /\ call' = NoCall
    /\ UNCHANGED <<raw_reviews, game_data, disk, host, argsort_tie, first_call,
                   runs, threads>>

\* streamlit_app.py: the first run of main(); load_recommender() runs once per
\* process (st.cache_resource) and main() returns if it gave no recommender
st_main ==
    /\ pc = "load"
    /\ host = "streamlit"
    /\ LET loaded == st_load_recommender(disk)
       IN  /\ recommender' = loaded
           /\ loads' = IF loaded = None THEN loads ELSE loads + 1
           /\ pc' = IF loaded = None THEN "exit" ELSE "idle"
    /\ call' = NoCall
    /\ UNCHANGED <<raw_reviews, game_data, disk, host, argsort_tie, first_call,
                   runs, threads>>

\* the records of get_top_recommendations: rank and level added to each
ranked(recommendations) ==
    [i \in 1..Len(recommendations) |->
        [game_id |-> recommendations[i].game_id,
         game_name |-> recommendations[i].game_name,
         similarity_score |-> recommendations[i].similarity_score,
         match_percentage |-> recommendations[i].match_percentage,
         rank |-> i,
         recommendation_level |-> IF i <= 10 THEN "Highly Recommended"
                                  ELSE IF i <= 50 THEN "Recommended"
                                  ELSE "Least Recommended"]]

\* profile.py get_top_recommendations(user_profile, top_n): the artifacts are
\* read, a GameRecommender is built and asked; an exception leaves the function
get_top_recommendations ==
    /\ host = "profile"
    /\ pc \in {"load", "idle"}
    /\ loads < MaxLoads
    /\ \E user_profile \in ProfileTexts, top_n \in ProfileTopNs :
          LET built == read_artifacts(disk)
              r == recommend(built.val, user_profile, top_n)
          IN  IF built.exc # "none"
              THEN /\ call' = Some([op |-> "get_top_recommendations", arg |-> user_profile,
                                    top_n |-> top_n, ret |-> built, steps |-> <<>>,
                                    nonzero |-> FALSE])
                   /\ pc' = "exit"
                   /\ UNCHANGED <<recommender, loads>>
              ELSE /\ call' = Some([op |-> "get_top_recommendations", arg |-> user_profile,
                                    top_n |-> top_n,
                                    ret |-> IF r.ret.exc = "none"
                                            THEN Return(ranked(r.ret.val)) ELSE r.ret,
                                    steps |-> r.steps, nonzero |-> r.nonzero])
                   /\ recommender' = Some(built.val)
                   /\ loads' = loads + 1
                   /\ pc' = "replied"
    /\ UNCHANGED <<raw_reviews, game_data, disk, host, argsort_tie, first_call,
                   runs, threads>>

-----------------------------------------------------------------------------
(* Serving: calls on the loaded recommender *)

\* as self_after_recommend, with the list of names reordered in place
self_after_recommend_reordering(self, user_review, top_n) ==
    [self EXCEPT !.game_names = reversed(@)]

\* the recommender as recommend() leaves it: no field of self is assigned
self_after_recommend(self, user_review, top_n) == self

\* as self_after_get_all_games, the names handed out and consumed by the caller
self_after_get_all_games_emptied(self) == [self EXCEPT !.game_names = <<>>]

\* the recommender as get_all_games() leaves it: the list it returns is built
\* from new dicts
self_after_get_all_games(self) == self

\* the recommender as get_total_games() leaves it
self_after_get_total_games(self) == self

\* one call recommender.recommend(user_review, top_n), the arguments drawn
\* from the given sets
RecommendFrom(reviews, top_ns) ==
    /\ pc = "idle"
    /\ host \in {"flask", "streamlit"}
    /\ recommender # None
    /\ \E user_review \in reviews, top_n \in top_ns :
          LET r == recommend(recommender[1], user_review, top_n)
          IN  /\ call' = Some([op |-> "recommend", arg |-> user_review, top_n |-> top_n,
                               ret |-> r.ret, steps |-> r.steps, nonzero |-> r.nonzero])
              /\ recommender' = Some(self_after_recommend(recommender[1], user_review, top_n))
    /\ pc' = "replied"
    /\ UNCHANGED <<raw_reviews, game_data, disk, host, argsort_tie, first_call,
                   runs, loads, threads>>

Recommend == RecommendFrom(Reviews, TopNs)

\* one call recommender.get_all_games()
GetAllGames ==
    /\ pc = "idle"
    /\ host \in {"flask", "streamlit"}
    /\ recommender # None
    /\ call' = Some([op |-> "get_all_games", arg |-> PyNone, top_n |-> 0,
                     ret |-> Return(get_all_games(recommender[1])),
                     steps |-> <<>>, nonzero |-> FALSE])
    /\ recommender' = Some(self_after_get_all_games(recommender[1]))
    /\ pc' = "replied"
    /\ UNCHANGED <<raw_reviews, game_data, disk, host, argsort_tie, first_call,
                   runs, loads, threads>>

\* one call recommender.get_total_games()
GetTotalGames ==
    /\ pc = "idle"
    /\ host \in {"flask", "streamlit"}
    /\ recommender # None
    /\ call' = Some([op |-> "get_total_games", arg |-> PyNone, top_n |-> 0,
                     ret |-> Return(get_total_games(recommender[1])),
                     steps |-> <<>>, nonzero |-> FALSE])
    /\ recommender' = Some(self_after_get_total_games(recommender[1]))
    /\ pc' = "replied"
    /\ UNCHANGED <<raw_reviews, game_data, disk, host, argsort_tie, first_call,
                   runs, loads, threads>>

\* the caller takes the returned value
Respond ==
    /\ pc = "replied"
    /\ pc' = "idle"
    /\ call' = NoCall
    /\ UNCHANGED <<raw_reviews, game_data, disk, host, recommender, argsort_tie,
                   first_call, runs, loads, threads>>

\* the local variables of recommend before the call
NoFrame ==
    [pc |-> "idle", user_review |-> None, top_n |-> None, cleaned_review |-> None,
     user_vector |-> None, similarities |-> None, top_indices |-> None, ret |-> None]

\* no request is being served
NoThreads == [t \in Threads |-> NoFrame]

\* a build from a reviews file, then the Flask application
InitBuild ==
    /\ raw_reviews \in RawDatasets
    /\ game_data = <<>>
    /\ pc = "process_data"

\* train_model(game_data) called on the table of the scenario
InitScenario ==
    /\ raw_reviews = <<>>
    /\ game_data = CorpusScenario
    /\ pc = "train_model"

Init ==
    /\ InitBuild \/ InitScenario
    /\ disk = NoFiles
    /\ host = "flask"
    /\ recommender = None
    /\ argsort_tie = <<>>
    /\ call = NoCall
    /\ first_call = NoCall
    /\ runs = 1
    /\ loads = 0
    /\ threads = NoThreads

Next ==
    \/ process_data
    \/ train_model
    \/ load_recommender
    \/ Recommend
    \/ GetAllGames
    \/ GetTotalGames
    \/ Respond

Spec == Init /\ [][Next]_vars

-----------------------------------------------------------------------------
(* Repeated calls: a caller keeps the answer to one call and compares later *)
(* answers to the same arguments with it                                    *)

RepeatWords == { w_fps, w_war, w_xyzzy123 }

RepeatReviews ==
    { PyNone }
    \cup { PyStr(str_join(ws)) : ws \in UNION { [1..k -> RepeatWords] : k \in 0..MaxPieces } }

\* the calls a caller keeps: one-word queries asked for two games
IsKept(c) == c.op = "recommend" /\ c.top_n = 2 /\ c.arg \in { PyStr(w) : w \in RepeatWords }

RecommendRepeat == RecommendFrom(RepeatReviews, TopNs)

\* the caller takes the returned value and keeps it
RespondAndKeep ==
    /\ pc = "replied"
    /\ first_call = NoCall
    /\ IsKept(call[1])
    /\ first_call' = call
    /\ pc' = "idle"
    /\ call' = NoCall
    /\ UNCHANGED <<raw_reviews, game_data, disk, host, recommender, argsort_tie,
                   runs, loads, threads>>

NextRepeat ==
    \/ process_data
    \/ train_model
    \/ load_recommender
    \/ RecommendRepeat
    \/ RespondAndKeep
    \/ Respond

SpecRepeat == Init /\ [][NextRepeat]_vars

-----------------------------------------------------------------------------
(* Direct calls of clean_text, as process_data makes on every raw review *)

CleanText ==
    /\ pc = "idle"
    /\ \E text \in RawValues :
          call' = Some([op |-> "clean_text", arg |-> text, top_n |-> 0,
                        ret |-> clean_text(text), steps |-> <<"clean_text">>,
                        nonzero |-> FALSE])
    /\ pc' = "replied"
    /\ UNCHANGED <<raw_reviews, game_data, disk, host, recommender, argsort_tie,
                   first_call, runs, loads, threads>>

InitClean ==
    /\ raw_reviews = <<>>
    /\ game_data = <<>>
    /\ disk = NoFiles
    /\ host = "flask"
    /\ recommender = None
    /\ argsort_tie = <<>>
    /\ pc = "idle"
    /\ call = NoCall
    /\ first_call = NoCall
    /\ runs = 1
    /\ loads = 0
    /\ threads = NoThreads

NextClean ==
    \/ CleanText
    \/ Respond

SpecClean == InitClean /\ [][NextClean]_vars

-----------------------------------------------------------------------------
(* The three hosts, started after a build whose artifacts may have been lost *)
(* or damaged in the meantime                                               *)

Hosts == {"flask", "streamlit", "profile"}

ArtifactNames == {"vectorizer", "game_vectors", "games_csv"}

\* between the build and the start of the host, or while an imported
\* application serves, an artifact is deleted, or overwritten with bytes that
\* cannot be read back
Damage ==
    /\ pc = "load" \/ (host = "wsgi" /\ pc = "idle")
    /\ \E f \in ArtifactNames :
          \/ /\ disk[f] # None
             /\ disk' = [disk EXCEPT ![f] = None, !.corrupt = @ \ {f}]
          \/ /\ disk[f] # None
             /\ f \notin disk.corrupt
             /\ disk' = [disk EXCEPT !.corrupt = @ \cup {f}]
    /\ UNCHANGED <<raw_reviews, game_data, host, recommender, argsort_tie, pc, call,
                   first_call, runs, loads, threads>>

InitHosts ==
    /\ raw_reviews \in {DataRing, DataIdf}
    /\ game_data = <<>>
    /\ pc = "process_data"
    /\ disk = NoFiles
    /\ host \in Hosts
    /\ recommender = None
    /\ argsort_tie = <<>>
    /\ call = NoCall
    /\ first_call = NoCall
    /\ runs = 1
    /\ loads = 0
    /\ threads = NoThreads

NextHosts ==
    \/ process_data
    \/ train_model
    \/ Damage
    \/ load_recommender
    \/ st_main
    \/ get_top_recommendations
    \/ RecommendRepeat
    \/ Respond

SpecHosts == InitHosts /\ [][NextHosts]_vars

-----------------------------------------------------------------------------
(* Requests served at the same time: the Flask server runs each request in  *)
(* a thread of its own, and every thread calls recommend on the one          *)
(* recommender.  A call is taken statement by statement; threads[t] holds    *)
(* the local variables of the call thread t is in.                           *)

ConcurrentReviews == { PyStr(w_fps), PyStr(w_Guns), PyStr(w_The) }
ConcurrentTopNs == { 1, 2 }

\* as frame, the similarities kept in one place for all calls (an attribute
\* of the recommender): a call reads those of thread 1 when there are any
frame_with_shared_similarities(t) ==
    [threads[t] EXCEPT !.similarities =
        IF threads[1].similarities # None THEN threads[1].similarities ELSE @]

\* the variables a statement of call t reads: the locals of that call
frame(t) == threads[t]

Serving == pc = "idle" /\ host = "flask" /\ recommender # None

OthersUnchanged ==
    UNCHANGED <<raw_reviews, game_data, disk, host, recommender, argsort_tie, pc, call,
                first_call, runs, loads>>

\* a request arrives and its thread enters recommend(user_review, top_n)
ThreadCall(t) ==
    /\ Serving
    /\ threads[t].pc = "idle"
    /\ \E user_review \in ConcurrentReviews, top_n \in ConcurrentTopNs :
          threads' = [threads EXCEPT ![t] =
                         [NoFrame EXCEPT !.pc = "called", !.user_review = Some(user_review),
                                         !.top_n = Some(top_n)]]
    /\ OthersUnchanged

\* cleaned_review = clean_text(user_review), and the early return
ThreadClean(t) ==
    /\ Serving
    /\ threads[t].pc = "called"
    /\ LET cleaned_review == clean_text(frame(t).user_review[1]).val
       IN  threads' = [threads EXCEPT ![t] =
                          IF str_strip(cleaned_review) = <<>>
                          THEN [@ EXCEPT !.pc = "returned",
                                         !.cleaned_review = Some(cleaned_review),
                                         !.ret = Some(Return(<<>>))]
                          ELSE [@ EXCEPT !.pc = "cleaned",
                                         !.cleaned_review = Some(cleaned_review)]]
    /\ OthersUnchanged

\* user_vector = transform_text(self.vectorizer, cleaned_review)
ThreadTransform(t) ==
    /\ Serving
    /\ threads[t].pc = "cleaned"
    /\ threads' = [threads EXCEPT ![t] =
                      [@ EXCEPT !.pc = "vectorized",
                                !.user_vector = Some(transform_text(recommender[1].vectorizer,
                                                                    frame(t).cleaned_review[1]))]]
    /\ OthersUnchanged

\* similarities = calculate_similarity_matrix(user_vector, self.game_vectors)
ThreadSimilarity(t) ==
    /\ Serving
    /\ threads[t].pc = "vectorized"
    /\ threads' = [threads EXCEPT ![t] =
                      [@ EXCEPT !.pc = "scored",
                                !.similarities = Some(calculate_similarity_matrix(
                                                         frame(t).user_vector[1],
                                                         recommender[1].game_vectors))]]
    /\ OthersUnchanged

\* top_indices = find_top_matches(similarities, top_n=top_n)
ThreadTopMatches(t) ==
    /\ Serving
    /\ threads[t].pc = "scored"
    /\ threads' = [threads EXCEPT ![t] =
                      [@ EXCEPT !.pc = "ranked",
                                !.top_indices = Some(find_top_matches(frame(t).similarities[1],
                                                                      frame(t).top_n[1]))]]
    /\ OthersUnchanged

\* top_scores = get_similarity_scores(similarities, top_indices) and the loop
\* that builds the records
ThreadFormat(t) ==
    /\ Serving
    /\ threads[t].pc = "ranked"
    /\ LET self == recommender[1]
           top_indices == frame(t).top_indices[1]
           top_scores == get_similarity_scores(frame(t).similarities[1], top_indices)
       IN  threads' = [threads EXCEPT ![t] =
                          [@ EXCEPT !.pc = "returned",
                                    !.ret = Some(
                                        IF \E k \in 1..Len(top_indices) :
                                              \/ top_indices[k] > Len(self.game_ids)
                                              \/ top_indices[k] > Len(self.game_names)
                                        THEN Raise("IndexError")
                                        ELSE Return([k \in 1..Len(top_indices) |->
                                                        recommendation_record(
                                                            self, top_indices[k], top_scores[k])]))]]
    /\ OthersUnchanged

\* the handler sends the response and the thread is free again
ThreadReturn(t) ==
    /\ Serving
    /\ threads[t].pc = "returned"
    /\ threads' = [threads EXCEPT ![t] = NoFrame]
    /\ OthersUnchanged

InitConcurrent ==
    /\ raw_reviews = DataRing
    /\ game_data = <<>>
    /\ pc = "process_data"
    /\ disk = NoFiles
    /\ host = "flask"
    /\ recommender = None
    /\ argsort_tie = <<>>
    /\ call = NoCall
    /\ first_call = NoCall
    /\ runs = 1
    /\ loads = 0
    /\ threads = NoThreads

NextConcurrent ==
    \/ process_data
    \/ train_model
    \/ load_recommender
    \/ \E t \in Threads : ThreadCall(t)
    \/ \E t \in Threads : ThreadClean(t)
    \/ \E t \in Threads : ThreadTransform(t)
    \/ \E t \in Threads : ThreadSimilarity(t)
    \/ \E t \in Threads : ThreadTopMatches(t)
    \/ \E t \in Threads : ThreadFormat(t)
    \/ \E t \in Threads : ThreadReturn(t)

SpecConcurrent == InitConcurrent /\ [][NextConcurrent]_vars

-----------------------------------------------------------------------------
(* app.py: the handler of POST /api/recommend *)

DEFAULT_TOP_N == 5
MAX_TOP_N == 20

\* a JSON value given as top_n: [type, val], val the number of an int or bool
JsonInt(n) == [type |-> "int", val |-> n]
JsonStr == [type |-> "str", val |-> 0]
\* JSON true: json gives the Python bool True, an instance of int equal to 1
JsonTrue == [type |-> "bool", val |-> 1]

\* a request: its body cannot be parsed ("invalid": no body, or not JSON), is
\* parsed to an empty value ("empty": {}, [], null), is an array or a string
\* that holds "review" ("list"), or is an object with or without the keys
\* review and top_n
Request(json, review, top_n) == [json |-> json, review |-> review, top_n |-> top_n]

Response(status, success, recommendations) ==
    [status |-> status, success |-> success, recommendations |-> recommendations]

\* top_n as the handler passes it to recommend
limit_top_n(top_n) ==
    LET given == IF top_n = None THEN DEFAULT_TOP_N
                 ELSE IF top_n[1].type \notin {"int", "bool"} \/ top_n[1].val < 1
                      THEN DEFAULT_TOP_N
                 ELSE top_n[1].val
    IN  IF given > MAX_TOP_N THEN MAX_TOP_N ELSE given

\* recommend(): the response, the exception caught on the way, if any, and the
\* calls of recommender.recommend it made
api_recommend(rec, request) ==
    IF rec = None
    THEN [response |-> Response(503, FALSE, None), raised |-> "none", calls |-> <<>>]
    ELSE IF request.json = "invalid"                    \* request.get_json() raises
    THEN [response |-> Response(500, FALSE, None), raised |-> "BadRequest", calls |-> <<>>]
    ELSE IF request.json = "empty"                      \* not data
    THEN [response |-> Response(400, FALSE, None), raised |-> "none", calls |-> <<>>]
    ELSE IF request.json = "list"                       \* data['review'] raises
    THEN [response |-> Response(500, FALSE, None), raised |-> "TypeError", calls |-> <<>>]
    ELSE IF request.review = None                       \* 'review' not in data
    THEN [response |-> Response(400, FALSE, None), raised |-> "none", calls |-> <<>>]
    ELSE IF request.review[1].type # "str" \/ str_strip(request.review[1].chars) = <<>>
    THEN [response |-> Response(400, FALSE, None), raised |-> "none", calls |-> <<>>]
    ELSE LET top_n == limit_top_n(request.top_n)
             r == recommend(rec[1], request.review[1], top_n).ret
             calls == << [user_review |-> request.review[1], top_n |-> top_n] >>
         IN  IF r.exc # "none"
             THEN [response |-> Response(500, FALSE, None), raised |-> r.exc, calls |-> calls]
             ELSE [response |-> Response(200, TRUE, Some(r.val)), raised |-> "none",
                   calls |-> calls]

ApiReviews ==
    { None, Some(PyInt), Some(PyStr(<<" ">>)), Some(PyStr(w_fps)), Some(PyStr(w_xyzzy123)) }

ApiTopNs ==
    { None, Some(JsonInt(-1)), Some(JsonInt(0)), Some(JsonInt(1)), Some(JsonInt(2)),
      Some(JsonInt(MAX_TOP_N)), Some(JsonInt(MAX_TOP_N + 1)), Some(JsonStr), Some(JsonTrue) }

ApiRequests ==
    { Request("invalid", None, None), Request("empty", None, None),
      Request("list", None, None) }
    \cup { Request("object", review, top_n) : review \in ApiReviews, top_n \in ApiTopNs }

\* one request POST /api/recommend
ApiRecommend ==
    /\ pc = "idle"
    /\ host \in {"flask", "wsgi"}
    /\ \E request \in ApiRequests :
          LET r == api_recommend(recommender, request)
          IN  call' = Some([op |-> "api_recommend", arg |-> request,
                            top_n |-> limit_top_n(request.top_n),
                            ret |-> r.response, raised |-> r.raised, calls |-> r.calls,
                            used |-> r.calls # <<>>,
                            steps |-> <<>>, nonzero |-> FALSE])
    /\ pc' = "replied"
    /\ UNCHANGED <<raw_reviews, game_data, disk, host, recommender, argsort_tie,
                   first_call, runs, loads, threads>>

-----------------------------------------------------------------------------
(* Repeated builds: train_model.py is run up to MaxRuns times, each time on   *)
(* the reviews file of that time, and the Flask application is started on    *)
(* what the runs left on disk                                                *)

InitRuns ==
    /\ raw_reviews \in BuildDatasets
    /\ game_data = <<>>
    /\ pc = "process_data"
    /\ disk = NoFiles
    /\ host = "flask"
    /\ recommender = None
    /\ argsort_tie = <<>>
    /\ call = NoCall
    /\ first_call = NoCall
    /\ runs = 1
    /\ loads = 0
    /\ threads = NoThreads

NextRuns ==
    \/ process_data
    \/ train_model
    \/ NextRun
    \/ load_recommender
    \/ ApiRecommend
    \/ Respond

SpecRuns == InitRuns /\ [][NextRuns]_vars

-----------------------------------------------------------------------------
(* transform_text called on the fitted vectorizer of the loaded recommender *)

TransformWords == { w_fps, w_war, w_gun, w_zen, w_xyzzy }

RECURSIVE TokenLists(_)
\* the lists of at most n words
TokenLists(n) ==
    IF n = 0 THEN { <<>> }
    ELSE TokenLists(n - 1)
         \cup { Append(ws, w) : ws \in { l \in TokenLists(n - 1) : Len(l) = n - 1 },
                                 w \in TransformWords }

\* normalized texts: lower-case words joined by single spaces
TransformTexts == { str_join(ws) : ws \in TokenLists(MaxTokens) }

TransformDatasets == RawDatasets \cup { DataSplit, DataPhrase }

\* one call transform_text(recommender.vectorizer, text)
TransformText ==
    /\ pc = "idle"
    /\ recommender # None
    /\ \E text \in TransformTexts :
          call' = Some([op |-> "transform_text", arg |-> text, top_n |-> 0,
                        ret |-> Return(transform_text(recommender[1].vectorizer, text)),
                        steps |-> <<>>, nonzero |-> FALSE])
    /\ pc' = "replied"
    /\ UNCHANGED <<raw_reviews, game_data, disk, host, recommender, argsort_tie,
                   first_call, runs, loads, threads>>

InitTransform ==
    /\ raw_reviews \in TransformDatasets
    /\ game_data = <<>>
    /\ pc = "process_data"
    /\ disk = NoFiles
    /\ host = "flask"
    /\ recommender = None
    /\ argsort_tie = <<>>
    /\ call = NoCall
    /\ first_call = NoCall
    /\ runs = 1
    /\ loads = 0
    /\ threads = NoThreads

NextTransform ==
    \/ process_data
    \/ train_model
    \/ load_recommender
    \/ TransformText
    \/ Respond

SpecTransform == InitTransform /\ [][NextTransform]_vars

-----------------------------------------------------------------------------
(* app.py imported by a WSGI server or a test client: __main__ does not run, *)
(* the global recommender is None until the importer calls load_recommender  *)

\* seq[start:stop] for integers start and stop
slice_between(seq, start, stop) ==
    LET n == Len(seq)
        norm(i) == IF i < 0 THEN (IF n + i > 0 THEN n + i ELSE 0)
                   ELSE (IF i < n THEN i ELSE n)
    IN  SubSeq(seq, norm(start) + 1, norm(stop))

\* as api_get_stats, without the test of the global
api_get_stats_unchecked(rec) ==
    IF rec = None
    THEN [response |-> Response(500, FALSE, None), raised |-> "AttributeError", used |-> TRUE]
    ELSE [response |-> Response(200, TRUE,
                         Some([total_games |-> get_total_games(rec[1]),
                               vocabulary_size |-> Cardinality(rec[1].vectorizer.vocabulary_),
                               vector_dimensions |-> Cardinality(DOMAIN rec[1].game_vectors[1])])),
          raised |-> "none", used |-> TRUE]

\* get_games(): the response, and whether the recommender was used
api_get_games(rec, page, per_page) ==
    IF rec = None
    THEN [response |-> Response(503, FALSE, None), raised |-> "none", used |-> FALSE]
    ELSE LET games == get_all_games(rec[1])
             start == (page - 1) * per_page
             end == start + per_page
         IN  [response |-> Response(200, TRUE, Some(slice_between(games, start, end))),
              raised |-> "none", used |-> TRUE]

\* get_stats(): the response, and whether the recommender was used
api_get_stats(rec) ==
    IF rec = None
    THEN [response |-> Response(503, FALSE, None), raised |-> "none", used |-> FALSE]
    ELSE [response |-> Response(200, TRUE,
                         Some([total_games |-> get_total_games(rec[1]),
                               vocabulary_size |-> Cardinality(rec[1].vectorizer.vocabulary_),
                               vector_dimensions |-> Cardinality(DOMAIN rec[1].game_vectors[1])])),
          raised |-> "none", used |-> TRUE]

Pages == {0, 1, 2}
PerPages == {1, 2, 50}

\* import app: the module body runs, recommender = None
import_app ==
    /\ pc = "load"
    /\ host = "wsgi"
    /\ recommender' = None
    /\ pc' = "idle"
    /\ call' = NoCall
    /\ UNCHANGED <<raw_reviews, game_data, disk, host, argsort_tie, first_call,
                   runs, loads, threads>>

\* the importer calls load_recommender(): the global is assigned only when
\* the three artifacts are read
call_load_recommender ==
    /\ pc = "idle"
    /\ host = "wsgi"
    /\ loads < MaxLoads
    /\ LET loaded == app_load_recommender(disk)
       IN  /\ recommender' = IF loaded = None THEN recommender ELSE loaded
           /\ loads' = IF loaded = None THEN loads ELSE loads + 1
    /\ UNCHANGED <<raw_reviews, game_data, disk, host, argsort_tie, pc, call,
                   first_call, runs, threads>>

\* one request GET /api/games
ApiGetGames ==
    /\ pc = "idle"
    /\ host \in {"flask", "wsgi"}
    /\ \E page \in Pages, per_page \in PerPages :
          LET r == api_get_games(recommender, page, per_page)
          IN  call' = Some([op |-> "api_get_games", arg |-> <<page, per_page>>, top_n |-> 0,
                            ret |-> r.response, raised |-> r.raised, calls |-> <<>>,
                            used |-> r.used, steps |-> <<>>, nonzero |-> FALSE])
    /\ pc' = "replied"
    /\ UNCHANGED <<raw_reviews, game_data, disk, host, recommender, argsort_tie,
                   first_call, runs, loads, threads>>

\* one request GET /api/stats
ApiGetStats ==
    /\ pc = "idle"
    /\ host \in {"flask", "wsgi"}
    /\ LET r == api_get_stats(recommender)
       IN  call' = Some([op |-> "api_get_stats", arg |-> <<>>, top_n |-> 0,
                         ret |-> r.response, raised |-> r.raised, calls |-> <<>>,
                         used |-> r.used, steps |-> <<>>, nonzero |-> FALSE])
    /\ pc' = "replied"
    /\ UNCHANGED <<raw_reviews, game_data, disk, host, recommender, argsort_tie,
                   first_call, runs, loads, threads>>

InitWsgi ==
    /\ raw_reviews = DataRing
    /\ game_data = <<>>
    /\ pc = "process_data"
    /\ disk = NoFiles
    /\ host = "wsgi"
    /\ recommender = None
    /\ argsort_tie = <<>>
    /\ call = NoCall
    /\ first_call = NoCall
    /\ runs = 1
    /\ loads = 0
    /\ threads = NoThreads

NextWsgi ==
    \/ process_data
    \/ train_model
    \/ Damage
    \/ import_app
    \/ call_load_recommender
    \/ ApiGetGames
    \/ ApiRecommend
    \/ ApiGetStats
    \/ Respond

SpecWsgi == InitWsgi /\ [][NextWsgi]_vars

-----------------------------------------------------------------------------
(* Properties *)

\* the recommend call just answered, if any
Answered == { call[k] : k \in { j \in DOMAIN call : call[j].op = "recommend" } }
\* the clean_text call just answered, if any
Cleaned == { call[k] : k \in { j \in DOMAIN call : call[j].op = "clean_text" } }

\* the call reached the scoring steps
Scored(c) == \E k \in DOMAIN c.steps : c.steps[k] = "transform_text"

CorpusSize == Len(recommender[1].game_vectors)

\* the corpus row a returned record names
RowOf(r) == CHOOSE i \in 1..Len(recommender[1].game_ids) : recommender[1].game_ids[i] = r.game_id

\* C1: a query whose cleaned text is not blank but whose vector is all-zero
\* (every token outside the vocabulary) is answered with the empty list, for
\* every top_n.
C1_UnknownTokensGiveEmptyList ==
    \A c \in Answered :
        (Scored(c) /\ ~ c.nonzero) => c.ret = Return(<<>>)

\* C2: for 1 <= K <= corpus size and a query with a non-zero vector, recommend
\* returns exactly K records, each score at least the next one.
C2_ExactlyKSortedDescending ==
    \A c \in Answered :
        (c.nonzero /\ 1 <= c.top_n /\ c.top_n <= CorpusSize) =>
            /\ c.ret.exc = "none"
            /\ Len(c.ret.val) = c.top_n
            /\ \A k \in 1..(Len(c.ret.val) - 1) :
                  score_leq(c.ret.val[k + 1].similarity_score, c.ret.val[k].similarity_score)

\* a three-record answer whose scores strictly decrease
C2_Witness ==
    \E c \in Answered :
        /\ c.nonzero /\ c.top_n = 3 /\ c.ret.exc = "none" /\ Len(c.ret.val) = 3
        /\ score_less(c.ret.val[2].similarity_score, c.ret.val[1].similarity_score)
        /\ score_less(c.ret.val[3].similarity_score, c.ret.val[2].similarity_score)

\* C3: among returned games with equal scores the smaller corpus row comes
\* first, and a returned game that ties with a game left out has the smaller
\* row of the two.
C3_TiesInCorpusOrder ==
    \A c \in Answered :
        (Scored(c) /\ c.ret.exc = "none") =>
            /\ \A j, k \in DOMAIN c.ret.val :
                  (j < k /\ c.ret.val[j].similarity_score = c.ret.val[k].similarity_score)
                      => RowOf(c.ret.val[j]) < RowOf(c.ret.val[k])
            /\ \A k \in DOMAIN c.ret.val : \A i \in 1..CorpusSize :
                  LET sims == calculate_similarity_matrix(
                                  transform_text(recommender[1].vectorizer, clean_text(c.arg).val),
                                  recommender[1].game_vectors)
                  IN  (/\ \A j \in DOMAIN c.ret.val : RowOf(c.ret.val[j]) # i
                       /\ sims[i] = c.ret.val[k].similarity_score)
                          => RowOf(c.ret.val[k]) < i

\* C4: for every integer top_n and a query with a non-zero vector the number
\* of records is min(max(top_n, 1), corpus size).
C4_CountClampedToOneAndCorpusSize ==
    \A c \in Answered :
        c.nonzero =>
            /\ c.ret.exc = "none"
            /\ Len(c.ret.val) =
                  (LET k == IF c.top_n < 1 THEN 1 ELSE c.top_n
                   IN  IF k > CorpusSize THEN CorpusSize ELSE k)

\* the raw input is not a string, is empty, or is cleaned to a blank string
IsBlankInput(text) ==
    text.type # "str" \/ text.chars = <<>> \/ str_strip(clean_text(text).val) = <<>>

\* C5: a raw input that is not a string, is empty, or is cleaned to a blank
\* string is answered with the empty list, nothing is raised, and neither the
\* transform nor the scoring step is called.
C5_BlankInputGivesEmptyListUnscored ==
    \A c \in Answered :
        IsBlankInput(c.arg) =>
            /\ c.ret = Return(<<>>)
            /\ c.steps = <<"clean_text">>

\* a non-empty string of a stopword only, answered with the empty list
C5_Witness ==
    \E c \in Answered :
        /\ c.arg = PyStr(w_The) /\ c.top_n = 2
        /\ c.ret = Return(<<>>)

\* C6: every returned record has match_percentage = similarity_score * 100.
C6_PercentageIsScoreTimes100 ==
    \A c \in Answered :
        c.ret.exc = "none" =>
            \A k \in DOMAIN c.ret.val :
                c.ret.val[k].match_percentage = score_times(c.ret.val[k].similarity_score, 100)

\* a returned record with a score that is neither 0 nor 1
C6_Witness ==
    \E c \in Answered :
        /\ c.ret.exc = "none"
        /\ \E k \in DOMAIN c.ret.val :
              /\ c.ret.val[k].similarity_score.num # 0
              /\ c.ret.val[k].similarity_score.num # c.ret.val[k].similarity_score.den
              /\ c.ret.val[k].match_percentage.coef = 100

\* C7: a recommend call with the text and top_n of an earlier call on the same
\* recommender returns what the earlier call returned, whatever was called
\* in between.
C7_SameArgumentsSameAnswer ==
    \A c \in Answered : \A f \in Range(first_call) :
        (c.arg = f.arg /\ c.top_n = f.top_n) => c.ret = f.ret

\* a kept call asked again and answered with two records
C7_Witness ==
    \E c \in Answered : \E f \in Range(first_call) :
        /\ c.arg = f.arg /\ c.top_n = f.top_n
        /\ c.ret.exc = "none" /\ Len(c.ret.val) = 2

\* C8: with the scenario corpus built by train_model, recommend("intense
\* action shooter", 3) puts game A first, with a score strictly above those of
\* B and C.
C8_ScenarioRanksAFirst ==
    (game_data = CorpusScenario /\ pc \in {"idle", "replied", "exit"}) =>
        /\ recommender # None
        /\ LET r == recommend(recommender[1], ScenarioQuery, 3).ret
           IN  /\ r.exc = "none"
               /\ Len(r.val) = 3
               /\ r.val[1].game_name = "A"
               /\ score_less(r.val[2].similarity_score, r.val[1].similarity_score)

IsPunctuationOnly(word) == \A k \in DOMAIN word : word[k] \in Punctuation

\* every whitespace-separated word of the text is a stopword (in any letter
\* case) or is made of punctuation only
OnlyStopwordsAndPunctuation(s) ==
    \A k \in DOMAIN str_split(s) :
        \/ str_lower(str_split(s)[k]) \in stop_words
        \/ IsPunctuationOnly(str_split(s)[k])

\* C9: clean_text of a string made only of stopwords and punctuation is the
\* empty string.
C9_StopwordsAndPunctuationCleanToEmpty ==
    \A c \in Cleaned :
        (c.arg.type = "str" /\ OnlyStopwordsAndPunctuation(c.arg.chars))
            => c.ret = Return(<<>>)

\* C10: clean_text of a value that is not a string, or of the empty string,
\* is the empty string and nothing is raised.
C10_NonStringCleansToEmpty ==
    \A c \in Cleaned :
        (c.arg.type # "str" \/ c.arg.chars = <<>>) => c.ret = Return(<<>>)

\* clean_text(None) answered with the empty string
C10_Witness ==
    \E c \in Cleaned : c.arg = PyNone /\ c.ret = Return(<<>>)

NotStopword(word) == word \notin stop_words

\* the tokens of a raw string: the whitespace-separated words of its lowercased
\* text with every character other than a letter or whitespace removed
TokensOf(s) == str_split(re_sub_non_letters(str_lower(s)))

\* C11: clean_text of a string is the lemmas of its tokens that are not
\* stopwords, in the order of the input, joined by exactly one space, with no
\* whitespace at either end; no token is reordered, duplicated or dropped
\* other than the stopwords.
C11_LemmasOfKeptTokensInOrder ==
    \A c \in Cleaned :
        c.arg.type = "str" =>
            LET kept == SelectSeq(TokensOf(c.arg.chars), NotStopword)
                lemmas == [k \in 1..Len(kept) |-> lemmatize(kept[k])]
                out == c.ret.val
            IN  /\ c.ret.exc = "none"
                /\ str_split(out) = lemmas
                /\ \A k \in DOMAIN out : out[k] \in Whitespace => out[k] = " "
                /\ \A k \in DOMAIN out :
                      out[k] = " " => (k > 1 /\ k < Len(out) /\ out[k + 1] # " ")

\* "Guns, the  zen\nguns": a stopword dropped between kept words, one of them
\* twice
C11_Witness ==
    \E c \in Cleaned :
        /\ c.arg.type = "str"
        /\ Len(SelectSeq(TokensOf(c.arg.chars), NotStopword)) = 3
        /\ Len(TokensOf(c.arg.chars)) = 4
        /\ c.ret = Return(str_join(<<w_gun, w_zen, w_gun>>))

\* C12: no operation of the recommender (recommend, get_all_games,
\* get_total_games) changes its vectorizer, game_vectors, game_names or
\* game_ids: after any sequence of calls they are the values the constructor
\* was given, those read from the artifacts.
C12_RecommenderKeepsConstructorValues ==
    recommender # None =>
        /\ read_artifacts(disk).exc = "none"
        /\ recommender[1].vectorizer = disk.vectorizer[1]
        /\ recommender[1].game_vectors = disk.game_vectors[1]
        /\ recommender[1].game_names = disk.games_csv[1].app_name
        /\ recommender[1].game_ids = disk.games_csv[1].app_id

\* get_all_games answered with four games, the recommender as constructed
C12_Witness ==
    /\ pc = "replied"
    /\ call[1].op = "get_all_games"
    /\ Len(call[1].ret.val) = 4
    /\ recommender = Some(read_artifacts(disk).val)

\* C13: in every host (Flask application, Streamlit application, profile
\* script) the artifacts are read and the recommender constructed once in the
\* life of the process; serving a query (an HTTP request, a call of
\* get_top_recommendations) reads no artifact again and builds no new
\* recommender.
C13_ArtifactsLoadedOncePerProcess ==
    /\ loads <= 1
    /\ (pc = "replied" /\ loads = 1) => recommender = Some(read_artifacts(disk).val)

\* some artifact is missing or cannot be read
ArtifactsBad(d) == \E f \in ArtifactNames : d[f] = None \/ f \in d.corrupt

\* C15: if any of the three artifacts is missing or cannot be deserialized
\* when the Flask or the Streamlit application starts, load_recommender
\* reports failure, the recommender stays unset and the host never serves: no
\* recommender is built from a part of the artifacts.
C15_BadArtifactNeverServes ==
    (host \in {"flask", "streamlit"} /\ ArtifactsBad(disk)
       /\ pc \notin {"process_data", "train_model", "load"})
        => /\ recommender = None
           /\ loads = 0
           /\ pc = "exit"
           /\ app_load_recommender(disk) = None
           /\ st_load_recommender(disk) = None

\* the Streamlit application stopped because the game table alone is missing,
\* the file whose existence its loader does not test
C15_Witness ==
    /\ host = "streamlit"
    /\ pc = "exit"
    /\ disk.games_csv = None
    /\ disk.vectorizer # None
    /\ disk.game_vectors # None
    /\ disk.corrupt = {}

\* the frames of the calls in progress or just returned
Running == { t \in Threads : threads[t].pc # "idle" }

Called(op) == { call[k] : k \in { j \in DOMAIN call : call[j].op = op } }

\* C16: an exception raised while a request or a build is processed is
\* reported to the caller as a failure and never swallowed: the HTTP handler
\* answers status 500 with success = false, and the caller of the training
\* pipeline can tell that the run failed.
C16_ExceptionsSurfaceAsFailures ==
    /\ \A c \in Called("api_recommend") :
          c.raised # "none" => (c.ret.status = 500 /\ c.ret.success = FALSE)
    /\ \A c \in Called("train_model") :
          c.ret.exc # "none" => c.exit_status # 0

\* the game table and the game-vector matrix a build leaves on disk
SavedTable == disk.games_csv[1]
SavedMatrix == disk.game_vectors[1]

\* C18: after any run of the offline build, also one that failed part-way
\* and one that follows an earlier successful run, the saved game table has
\* one row per row of the saved game-vector matrix and row i of the table is
\* the game whose reviews gave row i of the matrix: table and matrix are
\* those of one build of one reviews file.
C18_TableAndMatrixOfOneBuild ==
    (pc = "load" /\ disk.games_csv # None /\ disk.game_vectors # None) =>
        /\ Len(SavedTable.app_id) = Len(SavedMatrix)
        /\ \E df \in BuildDatasets :
              LET table == group_reviews(df)
                  fit == fit_and_transform(
                             create_tfidf_vectorizer,
                             [i \in 1..Len(table) |-> table[i].combined_reviews])
              IN  /\ fit.exc = "none"
                  /\ SavedTable = to_csv(table)
                  /\ SavedMatrix = fit.val.vectors

\* the reviews of a game that are left after cleaning
UsableReviews(df, id) ==
    { k \in DOMAIN df :
        df[k].app_id = id /\ str_strip(clean_text(df[k].review_text).val) # <<>> }

\* C19: process_data emits exactly one record per game (no two records with
\* the same game id), and a record for a game if and only if the game has at
\* least MIN_REVIEWS_PER_GAME reviews, counted after the reviews that clean to
\* nothing are removed.
C19_OneRecordPerGameWithEnoughReviews ==
    pc = "train_model" =>
        /\ \A i, j \in DOMAIN SavedTable.app_id :
              i # j => SavedTable.app_id[i] # SavedTable.app_id[j]
        /\ \A id \in { raw_reviews[k].app_id : k \in DOMAIN raw_reviews } :
              (\E i \in DOMAIN SavedTable.app_id : SavedTable.app_id[i] = id)
                  <=> Cardinality(UsableReviews(raw_reviews, id)) >= MIN_REVIEWS_PER_GAME

\* a score coef * sqrt(num / den) lies between 0 and limit
InRange(score, limit) ==
    /\ score.coef = limit
    /\ score.den > 0
    /\ 0 <= score.num /\ score.num <= score.den

Transformed == { call[k] : k \in { j \in DOMAIN call : call[j].op = "transform_text" } }

\* the tokens with token o put after the first p of them
insert_at(tokens, p, o) ==
    SubSeq(tokens, 1, p) \o <<o>> \o SubSeq(tokens, p + 1, Len(tokens))

IsZeroVector(u) == \A t \in DOMAIN u : u[t] = 0

\* two rows are the same vector once L2-normalised: both zero, or both not
\* zero and proportional
same_vector(u, v) ==
    /\ IsZeroVector(u) <=> IsZeroVector(v)
    /\ \A s, t \in DOMAIN u : u[s] * v[t] = u[t] * v[s]

\* the token is not a term of the vocabulary
AbsentFromVocabulary(vectorizer, token) == token \notin vectorizer.vocabulary_

\* the token is neither a term of the vocabulary nor a word of one of its bigrams
InNoVocabularyTerm(vectorizer, token) ==
    \A t \in vectorizer.vocabulary_ : token \notin Range(str_split(t))

\* C17 as stated: a token absent from the vocabulary, inserted at any position
\* of a normalized text, leaves the vector of transform_text unchanged, and a
\* text of such tokens only has the all-zero vector.
C17_AbsentTokensAnywhereLeaveVectorUnchanged ==
    \A c \in Transformed :
        LET vectorizer == recommender[1].vectorizer
            tokens == str_split(c.arg)
        IN  /\ c.ret.exc = "none"
            /\ \A o \in TransformWords :
                 AbsentFromVocabulary(vectorizer, o) =>
                    \A p \in 0..Len(tokens) :
                        same_vector(transform_text(vectorizer, str_join(insert_at(tokens, p, o))),
                                    c.ret.val)
            /\ (\A i \in DOMAIN tokens : AbsentFromVocabulary(vectorizer, tokens[i]))
                 => IsZeroVector(c.ret.val)

\* C17, amended: a token that occurs in no term of the vocabulary, put before
\* or after a normalized text, leaves the vector of transform_text unchanged
\* (between two tokens it takes their bigram away), and a text of such tokens
\* only has the all-zero vector, without error.
C17_UnknownTokensAtEndsLeaveVectorUnchanged ==
    \A c \in Transformed :
        LET vectorizer == recommender[1].vectorizer
            tokens == str_split(c.arg)
        IN  /\ c.ret.exc = "none"
            /\ \A o \in TransformWords :
                 InNoVocabularyTerm(vectorizer, o) =>
                    \A p \in {0, Len(tokens)} :
                        same_vector(transform_text(vectorizer, str_join(insert_at(tokens, p, o))),
                                    c.ret.val)
            /\ (\A i \in DOMAIN tokens : InNoVocabularyTerm(vectorizer, tokens[i]))
                 => IsZeroVector(c.ret.val)

\* "fps war" transformed by a vectorizer that has the bigram "fps war" in its
\* vocabulary and no term with "xyzzy": the bigram has a weight in the vector
C17_Witness ==
    \E c \in Transformed :
        /\ c.arg = str_join(<<w_fps, w_war>>)
        /\ str_join(<<w_fps, w_war>>) \in recommender[1].vectorizer.vocabulary_
        /\ c.ret.val[str_join(<<w_fps, w_war>>)] > 0
        /\ InNoVocabularyTerm(recommender[1].vectorizer, w_xyzzy)

\* the request POST /api/recommend just answered, if any
ApiAnswered == { call[k] : k \in { j \in DOMAIN call : call[j].op = "api_recommend" } }

\* the JSON value is an integer (true and false are not)
IsJsonInteger(v) == v.type = "int"

\* C21: whatever the request body, every call of recommender.recommend made by
\* the handler of POST /api/recommend has a top_n in 1..MAX_TOP_N: DEFAULT_TOP_N
\* when the top_n of the body is missing, not an integer or below 1, MAX_TOP_N
\* when it is above MAX_TOP_N.
C21_HandlerClampsTopN ==
    \A c \in ApiAnswered : \A k \in DOMAIN c.calls :
        LET given == c.arg.top_n
            passed == c.calls[k].top_n
        IN  /\ passed \in 1..MAX_TOP_N
            /\ IF given = None THEN passed = DEFAULT_TOP_N
               ELSE IF ~ IsJsonInteger(given[1]) THEN passed = DEFAULT_TOP_N
               ELSE IF given[1].val < 1 THEN passed = DEFAULT_TOP_N
               ELSE IF given[1].val > MAX_TOP_N THEN passed = MAX_TOP_N
               ELSE TRUE

\* the body is absent or empty, has no key review, or its review is not a
\* string or is blank
HasNoUsableReview(request) ==
    \/ request.json \in {"invalid", "empty", "list"}
    \/ request.review = None
    \/ request.review[1].type # "str"
    \/ str_strip(request.review[1].chars) = <<>>

\* C22: with a loaded model, POST /api/recommend answers 400 with success=false
\* and does not call recommender.recommend when the body is absent or empty,
\* has no key review, or has a review that is not a string or is blank; in
\* every other case it calls recommender.recommend exactly once.
C22_BadRequestsRejectedWithoutCall ==
    \A c \in ApiAnswered :
        recommender # None =>
            IF HasNoUsableReview(c.arg)
            THEN c.ret.status = 400 /\ ~ c.ret.success /\ c.calls = <<>>
            ELSE Len(c.calls) = 1

\* the request to one of the three API endpoints just answered, if any
Served ==
    { call[k] : k \in { j \in DOMAIN call :
                          call[j].op \in {"api_get_games", "api_recommend", "api_get_stats"} } }

\* C23: while the global recommender is None, GET /api/games, POST
\* /api/recommend and GET /api/stats answer 503 with success=false and do not
\* use the recommender; after a load_recommender() that succeeded the global is
\* never None and no endpoint answers 503.
C23_UnsetGlobalAnswers503UntilLoaded ==
    /\ loads >= 1 => recommender # None
    /\ \A c \in Served :
          IF recommender = None
          THEN c.ret.status = 503 /\ ~ c.ret.success /\ ~ c.used
          ELSE c.ret.status # 503

\* POST /api/recommend with a review, answered 503 without a call of the
\* recommender, while the global is None and the artifacts are on disk
C23_Witness ==
    \E c \in Served :
        /\ recommender = None
        /\ read_artifacts(disk).exc = "none"
        /\ c.op = "api_recommend"
        /\ c.arg.review = Some(PyStr(w_fps))
        /\ c.ret.status = 503 /\ c.calls = <<>>

\* the similarities of the answered call, computed again from its argument
SimilaritiesOf(c) ==
    calculate_similarity_matrix(
        transform_text(recommender[1].vectorizer, clean_text(c.arg).val),
        recommender[1].game_vectors)

\* the corpus rows named by the records of an answer
RowsOf(c) == { RowOf(c.ret.val[k]) : k \in DOMAIN c.ret.val }

\* C24: for a query whose cleaned text is not blank and a top_n >= 0,
\* recommend returns min(top_n, corpus size) records, without failing; with
\* top_n at or above the corpus size that is every game, once.
C24_ReturnsMinOfTopNAndCorpusSize ==
    \A c \in Answered :
        (Scored(c) /\ c.top_n >= 0) =>
            /\ c.ret.exc = "none"
            /\ Len(c.ret.val) = (IF c.top_n < CorpusSize THEN c.top_n ELSE CorpusSize)
            /\ c.top_n >= CorpusSize =>
                  /\ RowsOf(c) = 1..CorpusSize
                  /\ \A j, k \in DOMAIN c.ret.val :
                        j # k => c.ret.val[j].game_id # c.ret.val[k].game_id

\* a call with top_n above the corpus size answered with every game
C24_Witness ==
    \E c \in Answered :
        /\ Scored(c) /\ c.nonzero
        /\ c.top_n > CorpusSize
        /\ c.ret.exc = "none"
        /\ Len(c.ret.val) = CorpusSize
        /\ RowsOf(c) = 1..CorpusSize

\* C25: for a query whose cleaned text is not blank and a top_n >= 1, the
\* records returned name pairwise distinct corpus rows, and the score of every
\* returned game is at least the score of every game that was not returned.
C25_DistinctRowsWithTheHighestScores ==
    \A c \in Answered :
        (Scored(c) /\ c.top_n >= 1 /\ c.ret.exc = "none") =>
            /\ \A j, k \in DOMAIN c.ret.val :
                  j # k => c.ret.val[j].game_id # c.ret.val[k].game_id
            /\ \A k \in DOMAIN c.ret.val : \A i \in (1..CorpusSize) \ RowsOf(c) :
                  score_leq(SimilaritiesOf(c)[i], c.ret.val[k].similarity_score)

\* two games returned, a third one left out with a score below both
C25_Witness ==
    \E c \in Answered :
        /\ Scored(c) /\ c.top_n = 2 /\ c.ret.exc = "none"
        /\ Len(c.ret.val) = 2
        /\ c.ret.val[1].game_id # c.ret.val[2].game_id
        /\ \E i \in (1..CorpusSize) \ RowsOf(c) :
              score_less(SimilaritiesOf(c)[i], c.ret.val[2].similarity_score)

\* C26: every record returned by recommend is built from one corpus row i: its
\* game_id is game_ids[i], its game_name is game_names[i] and its
\* similarity_score is the cosine similarity of the query vector and row i of
\* game_vectors.
C26_RecordBuiltFromOneRow ==
    \A c \in Answered :
        (Scored(c) /\ c.ret.exc = "none") =>
            \A k \in DOMAIN c.ret.val :
                \E i \in 1..CorpusSize :
                    /\ c.ret.val[k].game_id = recommender[1].game_ids[i]
                    /\ c.ret.val[k].game_name = recommender[1].game_names[i]
                    /\ c.ret.val[k].similarity_score = SimilaritiesOf(c)[i]

\* an answer of three records with three different scores, each from its row
C26_Witness ==
    \E c \in Answered :
        /\ Scored(c) /\ c.ret.exc = "none"
        /\ Len(c.ret.val) = 3
        /\ score_less(c.ret.val[2].similarity_score, c.ret.val[1].similarity_score)
        /\ score_less(c.ret.val[3].similarity_score, c.ret.val[2].similarity_score)
        /\ \A k \in 1..3 :
              c.ret.val[k].similarity_score = SimilaritiesOf(c)[RowOf(c.ret.val[k])]

====
